---------------------------- MODULE Spec2Model ----------------------------
(***************************************************************************)
(* InsightAI frontend: the Dashboard's query / selection state machine,    *)
(* the ChartTypeSelector's ranking of the chart registry and the           *)
(* ChartRenderer's per-family data transforms.                             *)
(*                                                                         *)
(* Six specifications share the module:                                    *)
(*   Spec          the Dashboard with its QueryInput and ChartTypeSelector *)
(*   SpecSettling  Spec, with every request sent eventually settling       *)
(*   SpecSelector  ChartTypeSelector's ranking and option rendering        *)
(*   SpecStacked   ChartRenderer, case 'stacked_100'                       *)
(*   SpecRenderer  ChartRenderer as a whole: guards, parsing, dispatch     *)
(*   SpecStream    streamAnalysis: the EventSource and its callbacks       *)
(* Each one leaves the variables of the others at their idle value.        *)
(***************************************************************************)
EXTENDS Integers, Sequences, FiniteSets, TLC

VARIABLES
    \* ---- Dashboard (useState hooks) and QueryInput
    isLoading,          \* Dashboard: isLoading
    steps,              \* Dashboard: steps
    result,             \* Dashboard: result, <<>> for null, <<response>> otherwise
    error,              \* Dashboard: error, Null or a message
    selectedChartType,  \* Dashboard: selectedChartType, Null or a chart type
    question,           \* QueryInput: question, a sequence of characters
    pending,            \* number of analyzeQuestion promises not yet settled
    \* ---- history variables of the Dashboard (written, never read, by the actions)
    selectionState,     \* who wrote selectedChartType last: Unset / AIDefault / UserOverride
    lastAction,         \* the Dashboard handler that ran last, with its argument
    beforeSubmit,       \* the selection as it was when the current query was submitted
    \* ---- ChartTypeSelector
    recommendedTypes,   \* prop recommendedTypes
    currentType,        \* useState currentType
    sortedOptions,      \* the ranked options of the last render
    \* ---- ChartRenderer
    config,             \* prop config
    chartData,          \* chartData: the rows, after parsing
    percentData,        \* case 'stacked_100': percentData
    rendered,           \* the element ChartRenderer returned
    tick,               \* the last axis tick handed to a tickFormatter, with its label
    \* ---- streamAnalysis
    readyState,         \* eventSource.readyState, Null before the call
    delivered,          \* the callbacks invoked so far, in order (written, never read)
    logged,             \* number of console.error calls of the catch block
    cleanedUp,          \* whether the returned cleanup function was called
    phase               \* position of the pure-function specifications

dashVars == <<isLoading, steps, result, error, selectedChartType, question, pending,
              selectionState, lastAction, beforeSubmit>>
selVars  == <<recommendedTypes, currentType, sortedOptions>>
rendVars == <<config, chartData, percentData, rendered, tick>>
streamVars == <<readyState, delivered, logged, cleanedUp>>
vars     == <<dashVars, selVars, rendVars, streamVars, phase>>

\* ------------------------------------------------------------------ bounds
MaxQuestionLen == 2
MaxRecommended == 2
MaxRows == 2

\* ------------------------------------------------------------- basic values
Null == "null"

\* ChartTypeSelector.tsx: the registry, in its declared order.
CHART_OPTIONS ==
    << [value |-> "bar",              label |-> "Bar"],
       [value |-> "line",             label |-> "Line"],
       [value |-> "pie",              label |-> "Pie"],
       [value |-> "area",             label |-> "Area"],
       [value |-> "scatter",          label |-> "Scatter"],
       [value |-> "radar",            label |-> "Radar"],
       [value |-> "composed",         label |-> "Combo"],
       [value |-> "stacked_column",   label |-> "Stacked"],
       [value |-> "stacked_bar",      label |-> "Stacked Bar"],
       [value |-> "clustered_column", label |-> "Clustered"],
       [value |-> "clustered_bar",    label |-> "Clustered Bar"],
       [value |-> "stacked_100",      label |-> "100% Stacked"],
       [value |-> "waterfall",        label |-> "Waterfall"],
       [value |-> "funnel",           label |-> "Funnel"],
       [value |-> "table",            label |-> "Table"] >>

\* type ChartType: the values a user can pick.
ChartType == { CHART_OPTIONS[i].value : i \in DOMAIN CHART_OPTIONS }

\* ---------------------------------------------------------------- QueryInput
Chars == {" ", "a"}

Questions == UNION { [1..n -> Chars] : n \in 0..MaxQuestionLen }

RECURSIVE TrimStart(_)
TrimStart(s) == IF s # <<>> /\ Head(s) = " " THEN TrimStart(Tail(s)) ELSE s

RECURSIVE TrimEnd(_)
TrimEnd(s) ==
    IF s # <<>> /\ s[Len(s)] = " " THEN TrimEnd(SubSeq(s, 1, Len(s) - 1)) ELSE s

\* String.prototype.trim
Trim(s) == TrimEnd(TrimStart(s))

\* ------------------------------------------------- what the backend can answer
\* visualization_config.type values the model's backend sends.
ConfigTypes == {"bar", "line", "error"}

\* recommended_charts: <<>> when the field is absent, <<list>> when present.
RecommendedLists == { <<>>, << <<>> >>, << <<"line", "bar">> >>, << <<"pie", "bar">> >> }

\* data: <<>> when the field is missing, <<rows>> when present.
ConfigData == << <<[name |-> "N", value |-> 5]>> >>

\* Configs with rows, and one config that carries no data.
VisualizationConfigs ==
    [type : ConfigTypes, recommended_charts : RecommendedLists, data : {ConfigData}]
        \cup { [type |-> "bar", recommended_charts |-> <<>>, data |-> <<>>] }

StepLists == { <<"Generating SQL">>, <<"Generating SQL", "Running query">> }

\* AnalyzeResponse; visualization_config is <<>> when the field is missing.
Responses ==
    [steps : StepLists,
     visualization_config : {<<>>} \cup { <<c>> : c \in VisualizationConfigs }]

\* What the await can throw: an Error with a message, or something else.
Thrown == { [isError |-> TRUE,  message |-> "Network Error"],
            [isError |-> FALSE, message |-> ""] }

StepText(s)     == [kind |-> "step",    text |-> s]
SendingStep     == [kind |-> "sending", text |-> ""]
ErrorStep(msg)  == [kind |-> "error",   text |-> msg]

\* Mutant of MapSteps: the steps are stored last first.
MapSteps_reversed(ss) == [i \in 1..Len(ss) |-> StepText(ss[Len(ss) + 1 - i])]

\* setSteps(response.steps): the entries of the log, in the order of the array.
RECURSIVE MapSteps(_)
MapSteps(ss) == IF ss = <<>> THEN <<>> ELSE <<StepText(Head(ss))>> \o MapSteps(Tail(ss))

\* ------------------------------------------------------------------ Dashboard
HasConfig == result # <<>> /\ result[1].visualization_config # <<>>

Config == result[1].visualization_config[1]

\* Mutant of getEffectiveConfig: the operands of || swapped, so the config's own
\* type wins over the user's pick.
getEffectiveConfig_configTypeFirst ==
    IF ~HasConfig THEN <<>>
    ELSE << [Config EXCEPT !.type = IF Config.type # Null
                                      THEN Config.type ELSE selectedChartType] >>

\* Dashboard.getEffectiveConfig: <<>> for null.
getEffectiveConfig ==
    IF ~HasConfig THEN <<>>
    ELSE << [Config EXCEPT !.type = IF selectedChartType # Null
                                      THEN selectedChartType ELSE Config.type] >>

\* Mutant of DefaultChartType: the first recommended chart, when there is one,
\* instead of the config's type.
DefaultChartType_firstRecommended(response) ==
    IF response.visualization_config = <<>> THEN "bar"
    ELSE LET c == response.visualization_config[1]
         IN  IF c.recommended_charts # <<>> /\ c.recommended_charts[1] # <<>>
             THEN c.recommended_charts[1][1] ELSE c.type

\* response.visualization_config?.type as ChartType || 'bar'
DefaultChartType(response) ==
    IF response.visualization_config = <<>> THEN "bar"
    ELSE response.visualization_config[1].type

ConfigTypeOrNull ==
    IF HasConfig THEN Config.type ELSE Null

\* Mutant of Dashboard_handleSubmit: setSelectedChartType(null) left out.
Dashboard_handleSubmit_keepSelection(q) ==
    /\ isLoading' = TRUE
    /\ steps' = <<SendingStep>>
    /\ result' = <<>>
    /\ error' = Null
    /\ pending' = pending + 1
    /\ lastAction' = [name |-> "submit", arg |-> Null, from |-> selectionState]
    /\ beforeSubmit' = [selectionState |-> selectionState,
                        configType |-> ConfigTypeOrNull]
    /\ UNCHANGED <<question, selectedChartType, selectionState>>

\* Mutant of Dashboard_handleSubmit: the selection is reset to the previous
\* result's AI type instead of null.
Dashboard_handleSubmit_resetToAIType(q) ==
    /\ isLoading' = TRUE
    /\ steps' = <<SendingStep>>
    /\ result' = <<>>
    /\ error' = Null
    /\ selectedChartType' = ConfigTypeOrNull
    /\ pending' = pending + 1
    /\ selectionState' = IF HasConfig THEN "AIDefault" ELSE "Unset"
    /\ lastAction' = [name |-> "submit", arg |-> Null, from |-> selectionState]
    /\ beforeSubmit' = [selectionState |-> selectionState,
                        configType |-> ConfigTypeOrNull]
    /\ UNCHANGED question

\* Dashboard.handleSubmit up to its await: the five resets, the first step, the request.
Dashboard_handleSubmit(q) ==
    /\ isLoading' = TRUE
    /\ steps' = <<SendingStep>>
    /\ result' = <<>>
    /\ error' = Null
    /\ selectedChartType' = Null
    /\ pending' = pending + 1
    /\ selectionState' = "Unset"
    /\ lastAction' = [name |-> "submit", arg |-> Null, from |-> selectionState]
    /\ beforeSubmit' = [selectionState |-> selectionState,
                        configType |-> ConfigTypeOrNull]
    /\ UNCHANGED question

\* Mutant of QueryInput_handleSubmit: the loading flag is not looked at.
QueryInput_handleSubmit_ignoresLoading ==
    /\ Trim(question) # <<>>
    /\ Dashboard_handleSubmit(Trim(question))
    /\ UNCHANGED <<selVars, rendVars, streamVars, phase>>

\* QueryInput.handleSubmit: the form's submit handler.
QueryInput_handleSubmit ==
    /\ Trim(question) # <<>>
    /\ ~isLoading
    /\ Dashboard_handleSubmit(Trim(question))
    /\ UNCHANGED <<selVars, rendVars, streamVars, phase>>

\* QueryInput: onChange of the input (disabled while loading) and the example
\* buttons (rendered only when not loading).
QueryInput_setQuestion(q) ==
    /\ ~isLoading
    /\ question' = q
    /\ UNCHANGED <<isLoading, steps, result, error, selectedChartType, pending,
                   selectionState, lastAction, beforeSubmit, selVars, rendVars, streamVars, phase>>

\* Mutant of handleSubmit_resolved: the response carries a failure, and the
\* error is set next to the result.
handleSubmit_resolved_setsError(response) ==
    /\ pending > 0
    /\ pending' = pending - 1
    /\ steps' = MapSteps(response.steps)
    /\ result' = <<response>>
    /\ error' = IF response.visualization_config # <<>>
                    /\ response.visualization_config[1].type = "error"
                THEN "An error occurred" ELSE error
    /\ selectedChartType' = DefaultChartType(response)
    /\ isLoading' = FALSE
    /\ selectionState' = "AIDefault"
    /\ lastAction' = [name |-> "result", arg |-> Null, from |-> selectionState]
    /\ UNCHANGED <<question, beforeSubmit, selVars, rendVars, streamVars, phase>>

\* Dashboard.handleSubmit after the await resolved with `response`, finally included.
handleSubmit_resolved(response) ==
    /\ pending > 0
    /\ pending' = pending - 1
    /\ steps' = MapSteps(response.steps)
    /\ result' = <<response>>
    /\ selectedChartType' = DefaultChartType(response)
    /\ isLoading' = FALSE
    /\ selectionState' = "AIDefault"
    /\ lastAction' = [name |-> "result", arg |-> Null, from |-> selectionState]
    /\ UNCHANGED <<error, question, beforeSubmit, selVars, rendVars, streamVars, phase>>

\* err instanceof Error ? err.message : 'An error occurred'
ErrorMessage(err) == IF err.isError THEN err.message ELSE "An error occurred"

\* Mutant of handleSubmit_rejected: no finally, the catch leaves the loading
\* flag as it is.
handleSubmit_rejected_noFinally(err) ==
    /\ pending > 0
    /\ pending' = pending - 1
    /\ error' = ErrorMessage(err)
    /\ steps' = Append(steps, ErrorStep(ErrorMessage(err)))
    /\ lastAction' = [name |-> "error", arg |-> Null, from |-> selectionState]
    /\ UNCHANGED <<isLoading, result, selectedChartType, question, selectionState,
                   beforeSubmit, selVars, rendVars, streamVars, phase>>

\* Dashboard.handleSubmit after the await threw `err`: catch and finally.
handleSubmit_rejected(err) ==
    /\ pending > 0
    /\ pending' = pending - 1
    /\ error' = ErrorMessage(err)
    /\ steps' = Append(steps, ErrorStep(ErrorMessage(err)))
    /\ isLoading' = FALSE
    /\ lastAction' = [name |-> "error", arg |-> Null, from |-> selectionState]
    /\ UNCHANGED <<result, selectedChartType, question, selectionState,
                   beforeSubmit, selVars, rendVars, streamVars, phase>>

\* Dashboard.handleChartTypeChange
handleChartTypeChange(type) ==
    /\ selectedChartType' = type
    /\ selectionState' = "UserOverride"

\* Mutant of ChartTypeSelector_handleSelect: the pick is also written into the
\* stored config, rows included.
ChartTypeSelector_handleSelect_rewritesConfig(type) ==
    /\ result # <<>>
    /\ getEffectiveConfig # <<>>
    /\ handleChartTypeChange(type)
    /\ lastAction' = [name |-> "pick", arg |-> type, from |-> selectionState]
    /\ result' = << [result[1] EXCEPT !.visualization_config =
                        << [Config EXCEPT !.type = type, !.data = <<>>] >>] >>
    /\ UNCHANGED <<isLoading, steps, error, question, pending,
                   beforeSubmit, selVars, rendVars, streamVars, phase>>

\* ChartTypeSelector.handleSelect, reached by a click on an option; the selector
\* is rendered only inside the results block (result && effectiveConfig).
ChartTypeSelector_handleSelect(type) ==
    /\ result # <<>>
    /\ getEffectiveConfig # <<>>
    /\ handleChartTypeChange(type)
    /\ lastAction' = [name |-> "pick", arg |-> type, from |-> selectionState]
    /\ UNCHANGED <<isLoading, steps, result, error, question, pending,
                   beforeSubmit, selVars, rendVars, streamVars, phase>>

\* The rows handed to DataTable inside the results block:
\* result.visualization_config?.data || []
DataTable_data ==
    IF HasConfig /\ Config.data # <<>> THEN Config.data[1] ELSE <<>>

\* DataTable: the placeholder for no rows, or the columns of the first row and
\* every row.
DataTable ==
    IF Len(DataTable_data) = 0 THEN [kind |-> "noData"]
    ELSE [kind |-> "table", columns |-> DOMAIN DataTable_data[1], rows |-> DataTable_data]

\* StepLogger: the rows steps.map renders, numbered from 1 in array order; the
\* component returns null when there is no step and nothing is loading.
StepLogger_rows ==
    IF steps = <<>> /\ ~isLoading THEN <<>>
    ELSE [i \in 1..Len(steps) |-> [number |-> i, step |-> steps[i]]]

InitDashboard ==
    /\ isLoading = FALSE
    /\ steps = <<>>
    /\ result = <<>>
    /\ error = Null
    /\ selectedChartType = Null
    /\ question = <<>>
    /\ pending = 0
    /\ selectionState = "Unset"
    /\ lastAction = [name |-> "init", arg |-> Null, from |-> "Unset"]
    /\ beforeSubmit = [selectionState |-> "Unset", configType |-> Null]

IdleSelector ==
    /\ recommendedTypes = <<>>
    /\ currentType = Null
    /\ sortedOptions = <<>>

IdleRenderer ==
    /\ config = [xKey |-> <<>>, yKey |-> [kind |-> "absent", keys |-> <<>>]]
    /\ chartData = <<>>
    /\ percentData = <<>>
    /\ rendered = [kind |-> "none"]
    /\ tick = <<>>

IdleStream ==
    /\ readyState = Null
    /\ delivered = <<>>
    /\ logged = 0
    /\ cleanedUp = FALSE

Init ==
    /\ InitDashboard
    /\ IdleStream
    /\ IdleSelector
    /\ IdleRenderer
    /\ phase = "dashboard"

Next ==
    \/ \E q \in Questions : QueryInput_setQuestion(q)
    \/ QueryInput_handleSubmit
    \/ \E response \in Responses : handleSubmit_resolved(response)
    \/ \E err \in Thrown : handleSubmit_rejected(err)
    \/ \E type \in ChartType : ChartTypeSelector_handleSelect(type)

Spec == Init /\ [][Next]_vars

\* The promise of analyzeQuestion settles: the await resumes handleSubmit on
\* its success path or in its catch.
RequestSettles ==
    \/ \E response \in Responses : handleSubmit_resolved(response)
    \/ \E err \in Thrown : handleSubmit_rejected(err)

\* The Dashboard where every request that was sent settles.
SpecSettling == Init /\ [][Next]_vars /\ WF_vars(RequestSettles)

\* ===================================================================
\* Claims about the Dashboard (checked under Spec)
\* ===================================================================

\* The state right after a result arrived.
AfterArrival == lastAction.name = "result"

\* recommendedCharts[0] ?? type of the displayed config.
FirstRecommendedOrType ==
    IF Config.recommended_charts # <<>> /\ Config.recommended_charts[1] # <<>>
    THEN Config.recommended_charts[1][1]
    ELSE Config.type

C3_UnsetWhileLoading ==
    (isLoading \/ pending > 0 \/ lastAction.name = "submit") =>
        /\ selectionState = "Unset"
        /\ selectedChartType = Null
        /\ result = <<>>
        /\ getEffectiveConfig = <<>>

\* A query is loading that was submitted over a user override.
C3_Witness ==
    /\ isLoading
    /\ lastAction.name = "submit"
    /\ beforeSubmit.selectionState = "UserOverride"

\* C4: after a user pick of t, whatever the state before, the selection is
\* UserOverride with current = t and the renderer is handed chart type t.
C4_PickSetsCurrent ==
    lastAction.name = "pick" =>
        /\ selectionState = "UserOverride"
        /\ selectedChartType = lastAction.arg
        /\ getEffectiveConfig # <<>>
        /\ getEffectiveConfig[1].type = lastAction.arg

\* A pick made over an earlier override, of a type that is not the config's.
C4_Witness ==
    /\ lastAction.name = "pick"
    /\ lastAction.from = "UserOverride"
    /\ HasConfig
    /\ lastAction.arg # Config.type

\* A result-arrival step, told by the Dashboard's own state.
ResultArrivalStep ==
    /\ isLoading /\ ~isLoading'
    /\ result = <<>> /\ result' # <<>>

\* C5: UserOverride is never left for AIDefault directly, and every step that
\* enters AIDefault is the arrival of a new query's result.
C5_AIDefaultOnlyByResult ==
    [][ /\ (selectionState = "UserOverride" => selectionState' \in {"UserOverride", "Unset"})
        /\ (selectionState' = "AIDefault" /\ selectionState # "AIDefault"
               => ResultArrivalStep) ]_vars

\* The selection is back in AIDefault for a query that was submitted from UserOverride.
C5_Witness ==
    /\ selectionState = "AIDefault"
    /\ beforeSubmit.selectionState = "UserOverride"

\* ===================================================================
\* ChartTypeSelector: ranking and option rendering (SpecSelector)
\* ===================================================================

\* Values a recommendedTypes prop is drawn from: registry members in an order
\* that differs from the registry's, and 'error', which is no registry member.
RecommendedValues == {"funnel", "line", "bar", "table", "error"}

RecommendedTypeLists == UNION { [1..n -> RecommendedValues] : n \in 0..MaxRecommended }

\* selectedType prop: selectedChartType || aiRecommendedType
SelectedTypes == ChartType \cup {"error"}

\* ChartTypeSelector.isRecommended: recommendedTypes.includes(type)
isRecommended(type) == \E i \in DOMAIN recommendedTypes : recommendedTypes[i] = type

\* ChartTypeSelector.isAIPick: recommendedTypes[0] === type
isAIPick(type) == recommendedTypes # <<>> /\ recommendedTypes[1] = type

\* Mutant of CompareOptions: the operands of the subtraction swapped.
CompareOptions_reversed(a, b) ==
    (IF isRecommended(b.value) THEN 0 ELSE 1) - (IF isRecommended(a.value) THEN 0 ELSE 1)

\* The comparator handed to sort: aRec - bRec.
CompareOptions(a, b) ==
    (IF isRecommended(a.value) THEN 0 ELSE 1) - (IF isRecommended(b.value) THEN 0 ELSE 1)

\* Mutant of InsertStable: an element goes before the ones it ties with, which
\* is what an unstable sort may do.
RECURSIVE InsertStable_tiesFirst(_, _)
InsertStable_tiesFirst(x, s) ==
    IF s = <<>> THEN <<x>>
    ELSE IF CompareOptions(Head(s), x) >= 0 THEN <<x>> \o s
    ELSE <<Head(s)>> \o InsertStable_tiesFirst(x, Tail(s))

\* Array.prototype.sort is stable: an element is placed after every element
\* that does not compare greater than it.
RECURSIVE InsertStable(_, _)
InsertStable(x, s) ==
    IF s = <<>> THEN <<x>>
    ELSE IF CompareOptions(Head(s), x) > 0 THEN <<x>> \o s
    ELSE <<Head(s)>> \o InsertStable(x, Tail(s))

\* Mutant of ArraySort: the recommended options are copied to the front and the
\* options are left as they were behind them.
ArraySort_copiesToFront(options) ==
    SelectSeq(options, LAMBDA o : isRecommended(o.value)) \o options

\* [...options].sort(compare)
RECURSIVE ArraySort(_)
ArraySort(options) ==
    IF options = <<>> THEN <<>>
    ELSE InsertStable(options[Len(options)],
                      ArraySort(SubSeq(options, 1, Len(options) - 1)))

\* Option rendering: const selected = currentType === option.value
OptionSelected(type) == currentType = type

\* Mutant of ShowsAIPickMark: the mark no longer asks for the option to be selected.
ShowsAIPickMark_unconditional(type) == isAIPick(type)

\* {aiPick && selected && <span>sparkle</span>}
ShowsAIPickMark(type) == isAIPick(type) /\ OptionSelected(type)

\* {recommended && !selected && <span dot/>}
ShowsRecommendedDot(type) == isRecommended(type) /\ ~OptionSelected(type)

\* className of the option's button
OptionStyle(type) ==
    IF OptionSelected(type) THEN "selected"
    ELSE IF isRecommended(type) THEN "recommended" ELSE "other"

\* One render of the selector: sortedOptions is computed from CHART_OPTIONS.
Selector_render ==
    /\ phase = "mounted"
    /\ sortedOptions' = ArraySort(CHART_OPTIONS)
    /\ phase' = "ranked"
    /\ UNCHANGED <<dashVars, rendVars, streamVars, recommendedTypes, currentType>>

\* The ranking applied once more, to its own output.
Selector_rerank ==
    /\ phase = "ranked"
    /\ sortedOptions' = ArraySort(sortedOptions)
    /\ phase' = "reranked"
    /\ UNCHANGED <<dashVars, rendVars, streamVars, recommendedTypes, currentType>>

\* ChartTypeSelector.handleSelect as seen by the selector: setCurrentType(type),
\* and the render that follows sorts CHART_OPTIONS again.
Selector_handleSelect(type) ==
    /\ phase = "ranked"
    /\ currentType' = type
    /\ sortedOptions' = ArraySort(CHART_OPTIONS)
    /\ UNCHANGED <<dashVars, rendVars, streamVars, recommendedTypes, phase>>

InitSelector ==
    /\ InitDashboard
    /\ IdleStream
    /\ IdleRenderer
    /\ recommendedTypes \in RecommendedTypeLists
    /\ currentType \in SelectedTypes
    /\ sortedOptions = <<>>
    /\ phase = "mounted"

NextSelector ==
    \/ Selector_render
    \/ Selector_rerank
    \/ \E type \in ChartType : Selector_handleSelect(type)

SpecSelector == InitSelector /\ [][NextSelector]_vars

\* ------------------------------------------------------------------
\* Claims about the selector (checked under SpecSelector)
\* ------------------------------------------------------------------
Ranked == phase \in {"ranked", "reranked"}

\* Position of a chart type in the registry.
RegistryIndex(type) == CHOOSE i \in DOMAIN CHART_OPTIONS : CHART_OPTIONS[i].value = type

InRecommended(type) == \E k \in DOMAIN recommendedTypes : recommendedTypes[k] = type

\* C6: in the ranked output every chart type that is a member of recommendedCharts
\* precedes every one that is not, and inside each group the order is the registry's.
C6_Partition ==
    Ranked =>
        \A i, j \in DOMAIN sortedOptions :
            i < j =>
                LET a == sortedOptions[i].value
                    b == sortedOptions[j].value
                IN  /\ InRecommended(b) => InRecommended(a)
                    /\ (InRecommended(a) <=> InRecommended(b))
                          => RegistryIndex(a) < RegistryIndex(b)

\* Two recommended registry members given in the reverse of their registry order,
\* ranked in front, in registry order, of a type that is not recommended but
\* comes first in the registry.
C6_Witness ==
    /\ phase = "ranked"
    /\ recommendedTypes = <<"funnel", "line">>
    /\ sortedOptions[1].value = "line"
    /\ sortedOptions[2].value = "funnel"
    /\ sortedOptions[3].value = "bar"

\* C7: ranking an already-ranked sequence with the same recommendedCharts changes nothing.
C7_Idempotent ==
    [][ (phase = "ranked" /\ phase' = "reranked") => sortedOptions' = sortedOptions ]_vars

\* A re-ranked sequence that is not the registry order.
C7_Witness ==
    /\ phase = "reranked"
    /\ recommendedTypes = <<"table", "line">>
    /\ sortedOptions # CHART_OPTIONS
    /\ Len(sortedOptions) = Len(CHART_OPTIONS)

\* C8 as stated: in the ranked list the entry equal to recommendedCharts[0], and
\* no other, carries the AI-pick mark, whatever chart type is selected.
C8_AIPickMarkedAlways ==
    Ranked =>
        \A i \in DOMAIN sortedOptions :
            ShowsAIPickMark(sortedOptions[i].value)
                <=> (recommendedTypes # <<>> /\ sortedOptions[i].value = recommendedTypes[1])

\* C8 amended: an entry carries the AI-pick mark exactly when its value equals
\* recommendedCharts[0] and it is the selected entry; while another type is
\* selected the AI pick carries the same dot as the merely recommended entries.
C8_AIPickMarkedWhenSelected ==
    Ranked =>
        \A i \in DOMAIN sortedOptions :
            LET v == sortedOptions[i].value
                first == recommendedTypes # <<>> /\ v = recommendedTypes[1]
            IN  /\ ShowsAIPickMark(v) <=> (first /\ v = currentType)
                /\ (first /\ v # currentType)
                      => (ShowsRecommendedDot(v) /\ OptionStyle(v) = "recommended")

\* The AI pick is in the list and another, merely recommended, type is selected.
C8_Witness ==
    /\ phase = "ranked"
    /\ recommendedTypes = <<"line", "bar">>
    /\ currentType = "bar"
    /\ \E i \in DOMAIN sortedOptions : sortedOptions[i].value = "line"

\* ===================================================================
\* ChartRenderer, case 'stacked_100' (SpecStacked)
\* ===================================================================

\* ---- Natural numbers of any size: a sequence of bits, least significant
\* first, the last one 1; <<>> is 0.  (A double's 53-bit mantissa does not fit
\* the model checker's integers.)
RECURSIVE NatBits(_)
NatBits(n) == IF n = 0 THEN <<>> ELSE <<n % 2>> \o NatBits(n \div 2)

Max(S) == CHOOSE x \in S : \A y \in S : y <= x
Min(S) == CHOOSE x \in S : \A y \in S : x <= y

\* Leading zeros (at the most significant end) removed.
Normalize(a) ==
    LET ones == { i \in DOMAIN a : a[i] = 1 }
    IN  IF ones = {} THEN <<>> ELSE SubSeq(a, 1, Max(ones))

Pad(a, n) == a \o [i \in 1..(n - Len(a)) |-> 0]

\* a + b + c for two bit sequences of one length n and a carry c: n + 1 bits.
\* The halves are added one after the other, so the nesting is logarithmic.
RECURSIVE AddBits(_, _, _)
AddBits(a, b, c) ==
    LET n == Len(a)
    IN  IF n = 0 THEN <<c>>
        ELSE IF n = 1 THEN <<(a[1] + b[1] + c) % 2, (a[1] + b[1] + c) \div 2>>
        ELSE LET h  == n \div 2
                 lo == AddBits(SubSeq(a, 1, h), SubSeq(b, 1, h), c)
                 hi == AddBits(SubSeq(a, h + 1, n), SubSeq(b, h + 1, n), lo[h + 1])
             IN  SubSeq(lo, 1, h) \o hi

BigAdd(a, b) ==
    LET n == IF Len(a) > Len(b) THEN Len(a) ELSE Len(b)
    IN  Normalize(AddBits(Pad(a, n), Pad(b, n), 0))

\* a - b for a >= b: a plus the complement of b plus 1, the carry out dropped.
BigSub(a, b) ==
    LET n == Len(a)
        nb == [i \in 1..n |-> 1 - Pad(b, n)[i]]
    IN  Normalize(SubSeq(AddBits(a, nb, 1), 1, n))

ShiftLeft(a, k) == IF a = <<>> THEN <<>> ELSE [i \in 1..k |-> 0] \o a

RECURSIVE BigMulSmall(_, _)
BigMulSmall(a, n) ==
    IF n = 0 \/ a = <<>> THEN <<>>
    ELSE BigAdd(IF n % 2 = 1 THEN a ELSE <<>>, ShiftLeft(BigMulSmall(a, n \div 2), 1))

BigLeq(a, b) ==
    IF Len(a) # Len(b) THEN Len(a) < Len(b)
    ELSE LET diff == { i \in DOMAIN a : a[i] # b[i] }
         IN  diff = {} \/ a[Max(diff)] < b[Max(diff)]

Reverse(s) == [i \in 1..Len(s) |-> s[Len(s) + 1 - i]]

\* ---- ECMAScript Numbers (IEEE 754 binary64) that are finite: sign * mant * 2^exp
\* with mant odd and of at most Precision bits; 0 has sign 0.
Precision == 53

DZero == [sign |-> 0, mant |-> <<>>, exp |-> 0]

Canonical(sign, mant, exp) ==
    LET ones == { i \in DOMAIN mant : mant[i] = 1 }
    IN  IF ones = {} THEN DZero
        ELSE [sign |-> sign,
              mant |-> SubSeq(mant, Min(ones), Max(ones)),
              exp  |-> exp + Min(ones) - 1]

\* Round to nearest, ties to even, onto Precision bits.
RoundToPrecision(sign, mant, exp) ==
    IF Len(mant) <= Precision THEN Canonical(sign, mant, exp)
    ELSE LET d      == Len(mant) - Precision
             kept   == SubSeq(mant, d + 1, Len(mant))
             guard  == mant[d]
             sticky == \E i \in 1..(d - 1) : mant[i] = 1
             up     == guard = 1 /\ (sticky \/ kept[1] = 1)
         IN  Canonical(sign, IF up THEN BigAdd(kept, <<1>>) ELSE kept, exp + d)

\* n bits of the binary expansion of r/t (0 <= r < t), most significant first,
\* with the remainder left; the halves are produced one after the other.
RECURSIVE FractionBits(_, _, _)
FractionBits(r, t, n) ==
    IF n = 0 THEN [bits |-> <<>>, rem |-> r]
    ELSE IF n = 1 THEN [bits |-> <<IF 2 * r >= t THEN 1 ELSE 0>>,
                        rem  |-> IF 2 * r >= t THEN 2 * r - t ELSE 2 * r]
    ELSE LET first == FractionBits(r, t, n \div 2)
             rest  == FractionBits(first.rem, t, n - n \div 2)
         IN  [bits |-> first.bits \o rest.bits, rem |-> rest.rem]

\* The number of zero bits that open the binary expansion of r/t (0 < r < t).
RECURSIVE LeadingZeros(_, _)
LeadingZeros(r, t) == IF 2 * r >= t THEN 0 ELSE 1 + LeadingZeros(2 * r, t)

Abs(n) == IF n < 0 THEN -n ELSE n

\* The Number v / t for integers v and t > 0: the first Precision significant
\* bits of the quotient, rounded to nearest, ties to even.
DoubleDiv(v, t) ==
    IF v = 0 THEN DZero
    ELSE LET int   == Reverse(NatBits(Abs(v) \div t))
             r     == Abs(v) % t
             zeros == IF int = <<>> THEN LeadingZeros(r, t) ELSE 0
             n     == zeros + Precision - Len(int)
             frac  == FractionBits(r, t, n)
             sig   == int \o SubSeq(frac.bits, zeros + 1, n)
             up    == 2 * frac.rem > t \/ (2 * frac.rem = t /\ sig[Precision] = 1)
             mant  == Reverse(sig)
         IN  Canonical(IF v < 0 THEN -1 ELSE 1,
                       IF up THEN BigAdd(mant, <<1>>) ELSE mant, -n)

\* The Number x * n for a Number x and a small integer n > 0.
DoubleMulSmall(x, n) == RoundToPrecision(x.sign, BigMulSmall(x.mant, n), x.exp)

\* The Number of an integer.
DoubleOfInt(n) == Canonical(IF n < 0 THEN -1 ELSE 1, NatBits(Abs(n)), 0)

\* ---- Record values: a number (an integer here), a string, null; undefined is
\* what reading a missing key gives.
Num(n)    == [t |-> "number", n |-> n]
Str(str)  == [t |-> "string", s |-> str]
NullValue == [t |-> "null"]
Undefined == [t |-> "undefined"]

\* row[key]
Get(row, key) == IF key \in DOMAIN row THEN row[key] ELSE Undefined

\* Number(string) for the strings of the model: <<n>>, or <<>> for NaN.
StringToNumber(str) ==
    CASE str = ""  -> <<0>>
      [] str = "2" -> <<2>>
      [] OTHER     -> <<>>

\* Number(value): <<n>>, or <<>> for NaN.
ToNumber(v) ==
    CASE v.t = "number"    -> <<v.n>>
      [] v.t = "null"      -> <<0>>
      [] v.t = "string"    -> StringToNumber(v.s)
      [] v.t = "undefined" -> <<>>

\* Number(value) || 0
NumberOrZero(v) == IF ToNumber(v) = <<>> THEN 0 ELSE ToNumber(v)[1]

\* config.yKey: absent, a single column name, or an array of column names.
YKeyAbsent     == [kind |-> "absent", keys |-> <<>>]
YKeyScalar(k)  == [kind |-> "scalar", keys |-> <<k>>]
YKeyArray(ks)  == [kind |-> "array",  keys |-> ks]

\* Array.isArray(config.yKey) ? config.yKey : [config.yKey || 'value']
yKeys ==
    IF config.yKey.kind = "array" THEN config.yKey.keys
    ELSE IF config.yKey.kind = "scalar" /\ config.yKey.keys[1] # "" THEN config.yKey.keys
    ELSE <<"value">>

\* config.xKey || 'name'
CategoryKey == IF config.xKey # <<>> /\ config.xKey[1] # "" THEN config.xKey[1] ELSE "name"

\* yKeys.reduce((sum, key) => sum + (Number(row[key]) || 0), 0)
RECURSIVE SumKeys(_, _)
SumKeys(row, keys) ==
    IF keys = <<>> THEN 0
    ELSE SumKeys(row, SubSeq(keys, 1, Len(keys) - 1)) + NumberOrZero(Get(row, keys[Len(keys)]))

\* Mutant of PercentOf: the share is not scaled to a percentage.
PercentOf_unscaled(value, total) ==
    IF total > 0 THEN DoubleDiv(value, total) ELSE DZero

\* total > 0 ? ((Number(row[key]) || 0) / total) * 100 : 0
PercentOf(value, total) ==
    IF total > 0 THEN DoubleMulSmall(DoubleDiv(value, total), 100) ELSE DZero

KeySet(keys) == { keys[i] : i \in DOMAIN keys }

\* Mutant of PercentRow: the new row starts as a copy of the input row.
PercentRow_spread(row) ==
    LET total == SumKeys(row, yKeys)
    IN  [k \in DOMAIN row \cup {CategoryKey} \cup KeySet(yKeys) |->
            IF k \in KeySet(yKeys) THEN PercentOf(NumberOrZero(Get(row, k)), total)
            ELSE Get(row, k)]

\* The callback of chartData.map: newRow holds the category key, then every
\* metric key (a metric key equal to the category key overwrites it).
PercentRow(row) ==
    LET total == SumKeys(row, yKeys)
    IN  [k \in {CategoryKey} \cup KeySet(yKeys) |->
            IF k \in KeySet(yKeys) THEN PercentOf(NumberOrZero(Get(row, k)), total)
            ELSE Get(row, CategoryKey)]

\* case 'stacked_100': percentData = chartData.map(...)
Stacked100_transform ==
    /\ phase = "input"
    /\ percentData' = [i \in 1..Len(chartData) |-> PercentRow(chartData[i])]
    /\ phase' = "transformed"
    /\ UNCHANGED <<dashVars, selVars, streamVars, config, chartData, rendered, tick>>

\* ---- inputs
\* The two metrics of a row: all zero, zero and a non-numeric string, thirds,
\* a total that is a power of two, a numeric string, a negative total, and a
\* negative value under a positive total.
MetricPairs ==
    { <<Num(0), Num(0)>>, <<Num(0), Str("abc")>>, <<Num(1), Num(2)>>,
      <<Num(1), Num(3)>>, <<Str("2"), Num(3)>>, <<Num(0), Num(-2)>>,
      <<Num(4), Num(-1)>> }

\* Rows with a category and two metrics (a second category for two of the
\* pairs); rows with one more column; rows with the default keys only.
PlainRows ==
    { [cat |-> Str("A"), x |-> m[1], y |-> m[2]] : m \in MetricPairs }
        \cup { [cat |-> Str("B"), x |-> Num(1), y |-> vy] : vy \in {Num(2), Num(0)} }
ExtraRows == { [cat |-> Str("A"), x |-> Num(1), y |-> vy, region |-> Str("R")] :
                   vy \in {Num(0), Num(3)} }
NamedRows == { [name |-> Str("N"), value |-> v] : v \in {Num(0), Num(5), NullValue} }

SeqsUpTo(S, n) == UNION { [1..k -> S] : k \in 0..n }

\* All records of one data sequence share their key set.
DataSets == SeqsUpTo(PlainRows, MaxRows) \cup SeqsUpTo(ExtraRows, MaxRows)
                \cup SeqsUpTo(NamedRows, MaxRows)

StackedConfigs ==
    { [xKey |-> <<"cat">>, yKey |-> YKeyArray(<<"x", "y">>)],
      [xKey |-> <<>>,      yKey |-> YKeyArray(<<"x", "y">>)],
      [xKey |-> <<"cat">>, yKey |-> YKeyScalar("x")],
      [xKey |-> <<>>,      yKey |-> YKeyAbsent] }

InitStacked ==
    /\ InitDashboard
    /\ IdleStream
    /\ IdleSelector
    /\ config \in StackedConfigs
    /\ chartData \in DataSets
    /\ percentData = <<>>
    /\ rendered = [kind |-> "none"]
    /\ tick = <<>>
    /\ phase = "input"

NextStacked == Stacked100_transform

SpecStacked == InitStacked /\ [][NextStacked]_vars

\* ------------------------------------------------------------------
\* Claims about stacked_100 (checked under SpecStacked)
\* ------------------------------------------------------------------
Transformed == phase = "transformed"

MetricKeys == KeySet(yKeys)

\* Double rounding leaves a relative error of at most 2^-RelErrBits.
RelErrBits == Precision - 2

\* |X - Y| <= Y * 2^-RelErrBits, for natural numbers X and Y.
WithinRounding(X, Y) ==
    LET D == IF BigLeq(X, Y) THEN BigSub(Y, X) ELSE BigSub(X, Y)
    IN  BigLeq(ShiftLeft(D, RelErrBits), Y)

\* The least exponent among the outputs of a row's metrics, 0 at most.
RECURSIVE MinExp(_, _)
MinExp(out, keys) ==
    IF keys = <<>> THEN 0
    ELSE LET m == MinExp(out, Tail(keys))
             e == out[Head(keys)].exp
         IN  IF e < m THEN e ELSE m

\* The sum of a row's metric outputs (none negative), scaled by 2^-emin.
RECURSIVE ScaledSum(_, _, _)
ScaledSum(out, keys, emin) ==
    IF keys = <<>> THEN <<>>
    ELSE BigAdd(ShiftLeft(out[Head(keys)].mant, out[Head(keys)].exp - emin),
                ScaledSum(out, Tail(keys), emin))

\* 100 scaled by 2^-emin.
ScaledHundred(emin) == ShiftLeft(NatBits(100), -emin)

\* |p| * total and 100 * |value|, both scaled by the same power of two.
ScaledOutput(p, total) ==
    BigMulSmall(ShiftLeft(p.mant, IF p.exp > 0 THEN p.exp ELSE 0), total)
ScaledTarget(p, value) ==
    ShiftLeft(NatBits(100 * Abs(value)), IF p.exp < 0 THEN -p.exp ELSE 0)

SignOf(n) == IF n > 0 THEN 1 ELSE IF n < 0 THEN -1 ELSE 0

\* The claim's reading of a row: the metric values and their total.
ClaimValue(row, k) == NumberOrZero(Get(row, k))
ClaimTotal(row)    == SumKeys(row, yKeys)
NonNegativeRow(row) == \A k \in MetricKeys : ClaimValue(row, k) >= 0

IsPowerOfTwo(n) == n \in {1, 2, 4, 8, 16}

C10_NonMetricKeysKept ==
    Transformed =>
        /\ Len(percentData) = Len(chartData)
        /\ \A i \in DOMAIN chartData :
              \A k \in (DOMAIN chartData[i]) \ MetricKeys :
                  /\ k \in DOMAIN percentData[i]
                  /\ percentData[i][k] = chartData[i][k]

\* C10 amended: same number of rows in the same order; an output row holds the
\* category key (xKey, or "name" without one) and the metric keys and nothing
\* else, the category key with the input row's value for it (undefined when the
\* row has none) unless it is a metric key too.
C10_CategoryKeyKept ==
    Transformed =>
        /\ Len(percentData) = Len(chartData)
        /\ \A i \in DOMAIN chartData :
              /\ DOMAIN percentData[i] = {CategoryKey} \cup MetricKeys
              /\ CategoryKey \notin MetricKeys
                    => percentData[i][CategoryKey] =
                          (IF CategoryKey \in DOMAIN chartData[i]
                           THEN chartData[i][CategoryKey] ELSE Undefined)

\* Two rows with different metrics and a column that is neither the category
\* nor a metric.
C10_Witness ==
    /\ Transformed
    /\ config.xKey = <<"cat">>
    /\ Len(chartData) = 2
    /\ "region" \in DOMAIN chartData[1]
    /\ chartData[1].y # chartData[2].y
    /\ percentData[1].cat = Str("A")

\* ===================================================================
\* ChartRenderer as a whole (SpecRenderer)
\* ===================================================================

\* ------------------------------------------------------------------ bounds
MaxSeriesRows == 3
MaxFunnelRows == 9

COLORS == << "#667eea", "#764ba2", "#10b981", "#f59e0b",
             "#ef4444", "#3b82f6", "#8b5cf6", "#ec4899" >>

\* COLORS[index % COLORS.length], for a 0-based index
ColorAt(index) == COLORS[(index % Len(COLORS)) + 1]

\* ---- config.data: absent (undefined or null), an array of rows, a string, or
\* one row object handed over as it is.
DataAbsent        == [kind |-> "absent"]
DataArray(rows)   == [kind |-> "array", rows |-> rows]
DataString(text)  == [kind |-> "string", text |-> text]
DataObject(row)   == [kind |-> "object", row |-> row]

\* !config.data
DataFalsy(data) == data.kind = "absent" \/ (data.kind = "string" /\ data.text = "")

\* JSON.parse(text) for the texts of the model: <<value>>, or <<>> when it throws.
JSONParse(text) ==
    CASE text = "[]" -> << [kind |-> "array", rows |-> <<>>] >>
      [] text = "[{\"name\":\"N\",\"value\":5}]" ->
             << [kind |-> "array", rows |-> << [name |-> Str("N"), value |-> Num(5)] >>] >>
      [] text = "{\"name\":\"N\",\"value\":5}" ->
             << [kind |-> "object", row |-> [name |-> Str("N"), value |-> Num(5)]] >>
      [] OTHER -> <<>>

\* chartData after parsing and the array wrap; it starts as [] and stays so
\* when nothing is assigned to it (data that is neither a string nor an array).
NormalizedData(data) ==
    IF data.kind = "array" THEN data.rows
    ELSE IF data.kind # "string" \/ JSONParse(data.text) = <<>> THEN <<>>
    ELSE LET parsed == JSONParse(data.text)[1]
         IN  IF parsed.kind = "array" THEN parsed.rows ELSE <<parsed.row>>

\* Mutant of getYKey: the first element of an array is returned as it is, also
\* when it is the empty string.
getYKey_firstElementAsIs ==
    IF config.yKey.kind = "absent" THEN "value"
    ELSE IF config.yKey.keys = <<>> THEN "value"
    ELSE IF config.yKey.kind = "scalar" /\ config.yKey.keys[1] = "" THEN "value"
    ELSE config.yKey.keys[1]

\* ChartRenderer.getYKey
getYKey ==
    IF config.yKey.kind = "absent" THEN "value"
    ELSE IF config.yKey.keys = <<>> \/ config.yKey.keys[1] = "" THEN "value"
    ELSE config.yKey.keys[1]

\* ---- case 'waterfall'
\* runningTotal after the first i rows
RECURSIVE RunningTotal(_, _)
RunningTotal(data, i) ==
    IF i = 0 THEN 0
    ELSE RunningTotal(data, i - 1) + NumberOrZero(Get(data[i], getYKey))

\* Mutant of WaterfallRow: start is taken after the running total was advanced.
WaterfallRow_startAfterAdd(data, i) ==
    LET value == NumberOrZero(Get(data[i], getYKey))
        over  == [name  |-> Get(data[i], CategoryKey),
                  value |-> Num(value),
                  start |-> Num(RunningTotal(data, i)),
                  end   |-> Num(RunningTotal(data, i)),
                  fill  |-> Str(IF value >= 0 THEN "#10b981" ELSE "#ef4444")]
    IN  [k \in DOMAIN data[i] \cup DOMAIN over |->
            IF k \in DOMAIN over THEN over[k] ELSE data[i][k]]

\* The callback of chartData.map: the row spread, then name, value, start, end, fill.
WaterfallRow(data, i) ==
    LET value == NumberOrZero(Get(data[i], getYKey))
        over  == [name  |-> Get(data[i], CategoryKey),
                  value |-> Num(value),
                  start |-> Num(RunningTotal(data, i - 1)),
                  end   |-> Num(RunningTotal(data, i)),
                  fill  |-> Str(IF value >= 0 THEN "#10b981" ELSE "#ef4444")]
    IN  [k \in DOMAIN data[i] \cup DOMAIN over |->
            IF k \in DOMAIN over THEN over[k] ELSE data[i][k]]

\* The total bar pushed after the map.
WaterfallTotal(data) ==
    [name  |-> Str("Total"),
     value |-> Num(RunningTotal(data, Len(data))),
     start |-> Num(0),
     end   |-> Num(RunningTotal(data, Len(data))),
     fill  |-> Str("#667eea")]

waterfallData(data) ==
    [i \in 1..Len(data) |-> WaterfallRow(data, i)] \o <<WaterfallTotal(data)>>

\* ---- case 'funnel'
Digits == << "0", "1", "2", "3", "4", "5", "6", "7", "8", "9" >>

\* The decimal digits of a natural number, as a sequence of characters.
RECURSIVE NatToChars(_)
NatToChars(n) ==
    IF n < 10 THEN <<Digits[n + 1]>> ELSE NatToChars(n \div 10) \o <<Digits[(n % 10) + 1]>>

\* Number.prototype.toString for an integer
IntToChars(n) == IF n < 0 THEN <<"-">> \o NatToChars(-n) ELSE NatToChars(n)

\* String(value): a string value; the string of a number is kept as its characters.
ToStringValue(v) ==
    CASE v.t = "string"    -> v
      [] v.t = "number"    -> [t |-> "string", chars |-> IntToChars(v.n)]
      [] v.t = "null"      -> Str("null")
      [] v.t = "undefined" -> Str("undefined")

\* The callback of the funnel's map, for the row at 0-based index i - 1.
FunnelItem(data, i) ==
    [name  |-> ToStringValue(Get(data[i], CategoryKey)),
     value |-> NumberOrZero(Get(data[i], getYKey)),
     fill  |-> ColorAt(i - 1)]

\* Mutant of CompareFunnel: ascending.
CompareFunnel_ascending(a, b) == a.value - b.value

\* The comparator handed to sort: b.value - a.value
CompareFunnel(a, b) == b.value - a.value

\* Array.prototype.sort is stable (see InsertStable).
RECURSIVE FunnelInsert(_, _)
FunnelInsert(x, s) ==
    IF s = <<>> THEN <<x>>
    ELSE IF CompareFunnel(Head(s), x) > 0 THEN <<x>> \o s
    ELSE <<Head(s)>> \o FunnelInsert(x, Tail(s))

RECURSIVE FunnelSort(_)
FunnelSort(items) ==
    IF items = <<>> THEN <<>>
    ELSE FunnelInsert(items[Len(items)], FunnelSort(SubSeq(items, 1, Len(items) - 1)))

\* Mutant of funnelData: the colour is taken from the position after the sort.
funnelData_colourAfterSort(data) ==
    LET sorted == FunnelSort([i \in 1..Len(data) |-> FunnelItem(data, i)])
    IN  [j \in 1..Len(sorted) |-> [sorted[j] EXCEPT !.fill = ColorAt(j - 1)]]

\* [...chartData].map(...).sort(...)
funnelData(data) == FunnelSort([i \in 1..Len(data) |-> FunnelItem(data, i)])

\* ---- renderTable
renderTable(data) ==
    IF Len(data) = 0 THEN [kind |-> "noData"]
    ELSE [kind |-> "table", columns |-> DOMAIN data[1], rows |-> data]

\* ---- the key of the category axis (XAxis / PolarAngleAxis dataKey, the pie's
\* nameKey, the funnel's label): <<>> when the chart is handed undefined.
CategoryDataKey ==
    CASE config.type = "pie" -> <<CategoryKey>>
      [] config.type = "scatter" ->
             << IF config.xKey # <<>> /\ config.xKey[1] # "" THEN config.xKey[1] ELSE "x" >>
      [] config.type \in {"waterfall", "funnel"} -> <<"name">>
      [] OTHER -> config.xKey

\* ---- case 'composed': the axes, the series and the hint
\* Mutant of ComposedChart: every metric key is drawn against the left axis.
ComposedChart_allLeft(data) ==
    [kind      |-> "chart",
     element   |-> "ComposedChart",
     data      |-> data,
     category  |-> CategoryDataKey,
     leftAxis  |-> TRUE,
     rightAxis |-> FALSE,
     bars      |-> [i \in 1..Len(yKeys) |-> [dataKey |-> <<yKeys[i]>>, yAxisId |-> "left"]],
     lines     |-> <<>>,
     hint      |-> Len(yKeys) = 1]

ComposedChart(data) ==
    [kind      |-> "chart",
     element   |-> "ComposedChart",
     data      |-> data,
     category  |-> CategoryDataKey,
     leftAxis  |-> TRUE,
     rightAxis |-> Len(yKeys) > 1,
     bars      |-> << [dataKey |-> IF yKeys = <<>> THEN <<>> ELSE <<yKeys[1]>>,
                       yAxisId |-> "left"] >>,
     lines     |-> IF Len(yKeys) > 1
                   THEN [i \in 1..(Len(yKeys) - 1) |->
                            [dataKey |-> <<yKeys[i + 1]>>, yAxisId |-> "right",
                             stroke  |-> ColorAt((i - 1) + 2)]]
                   ELSE <<>>,
     hint      |-> Len(yKeys) = 1]

\* ---- renderChart: the switch on config.type
Chart(element, data, series) ==
    [kind |-> "chart", element |-> element, data |-> data,
     category |-> CategoryDataKey, series |-> series]

\* The case labels of the switch that return a chart.
ChartCases == ChartType \ {"table"}

ChartCase(data) ==
    CASE config.type = "bar"     -> Chart("BarChart", data, <<getYKey>>)
      [] config.type = "line"    -> Chart("LineChart", data, <<getYKey>>)
      [] config.type = "pie"     -> Chart("PieChart", data, <<getYKey>>)
      [] config.type = "area"    -> Chart("AreaChart", data, <<getYKey>>)
      [] config.type = "scatter" -> Chart("ScatterChart", data, <<getYKey>>)
      [] config.type = "radar"   -> Chart("RadarChart", data, yKeys)
      [] config.type = "composed" -> ComposedChart(data)
      [] config.type \in {"stacked_column", "stacked_bar", "clustered_column", "clustered_bar"}
                                 -> Chart("BarChart", data, yKeys)
      [] config.type = "stacked_100" ->
             Chart("BarChart", [i \in 1..Len(data) |-> PercentRow(data[i])], yKeys)
      [] config.type = "waterfall" -> Chart("BarChart", waterfallData(data), <<"value">>)
      [] config.type = "funnel"  -> Chart("FunnelChart", funnelData(data), <<"value">>)

\* Mutant of renderChart: no default case, a type without a case is drawn as bars.
renderChart_defaultAsBar(data) ==
    IF config.type \in ChartCases THEN ChartCase(data)
    ELSE IF config.type = "table" THEN renderTable(data)
    ELSE Chart("BarChart", data, <<getYKey>>)

\* case 'table' and default: renderTable(chartData)
renderChart(data) ==
    IF config.type \in ChartCases THEN ChartCase(data) ELSE renderTable(data)

\* ---- case 'composed': the tickFormatters of the two axes
\* The natural number of a sequence of bits (least significant first).
RECURSIVE BitsToNat(_)
BitsToNat(bits) ==
    IF bits = <<>> THEN 0 ELSE bits[1] + 2 * BitsToNat(Tail(bits))

RECURSIVE Pow10(_)
Pow10(d) == IF d = 0 THEN 1 ELSE 10 * Pow10(d - 1)

\* The digits of n on exactly d places.
RECURSIVE FractionChars(_, _)
FractionChars(n, d) ==
    IF d = 0 THEN <<>> ELSE FractionChars(n \div 10, d - 1) \o <<Digits[(n % 10) + 1]>>

\* Number.prototype.toFixed(digits) of the Number x: the integer n with
\* n / 10^digits nearest to |x| (the larger one of two), written with a sign.
ToFixed(x, digits) ==
    LET m    == BigMulSmall(x.mant, Pow10(digits))
        k    == -x.exp
        half == BigAdd(ShiftLeft(m, 1), ShiftLeft(<<1>>, k))
        bits == IF x.exp >= 0 THEN ShiftLeft(m, x.exp)
                ELSE IF Len(half) <= k + 1 THEN <<>>
                ELSE SubSeq(half, k + 2, Len(half))
        n    == BitsToNat(bits)
    IN  (IF x.sign < 0 THEN <<"-">> ELSE <<>>)
            \o NatToChars(n \div Pow10(digits))
            \o (IF digits = 0 THEN <<>> ELSE <<".">> \o FractionChars(n % Pow10(digits), digits))

\* A tick value num / den with den a power of two, which a Number holds exactly.
TickNumber(v) == DoubleDiv(v.num, v.den)

\* value >= n, for an integer n
TickAtLeast(v, n) == v.num >= n * v.den

\* value <= n
TickAtMost(v, n) == v.num <= n * v.den

\* The Number value / n: the quotient is rounded once, the value being exact.
TickDividedBy(v, n) == DoubleDiv(v.num, v.den * n)

\* tickFormatter of the left YAxis
LeftTickFormatter(value) ==
    IF TickAtLeast(value, 1000000) THEN ToFixed(TickDividedBy(value, 1000000), 1) \o <<"M">>
    ELSE IF TickAtLeast(value, 1000) THEN ToFixed(TickDividedBy(value, 1000), 1) \o <<"K">>
    ELSE ToFixed(TickNumber(value), 0)

\* Mutant of RightTickFormatter: the percentage no longer asks for value >= 0.
RightTickFormatter_percentBelowZero(value) ==
    IF TickAtMost(value, 100) THEN ToFixed(TickNumber(value), 1) \o <<"%">>
    ELSE IF TickAtLeast(value, 1000) THEN ToFixed(TickDividedBy(value, 1000), 1) \o <<"K">>
    ELSE ToFixed(TickNumber(value), 1)

\* tickFormatter of the right YAxis
RightTickFormatter(value) ==
    IF TickAtMost(value, 100) /\ TickAtLeast(value, 0)
    THEN ToFixed(TickNumber(value), 1) \o <<"%">>
    ELSE IF TickAtLeast(value, 1000) THEN ToFixed(TickDividedBy(value, 1000), 1) \o <<"K">>
    ELSE ToFixed(TickNumber(value), 1)

\* ---- ChartRenderer: the guards, the parsing and the dispatch.  The field
\* calls of the returned element lists, in order, what ran before the return
\* (it is written, never read).
Message == IF config.message = <<>> THEN Undefined ELSE Str(config.message[1])

\* Mutant of ChartRenderer_element: a parse failure is swallowed and the chart
\* is rendered over no rows.
ChartRenderer_element_parseFailureIgnored ==
    IF DataFalsy(config.data)
    THEN [kind |-> "null", calls |-> <<>>]
    ELSE IF config.type = "error"
    THEN [kind |-> "error", title |-> config.title, message |-> Message, calls |-> <<>>]
    ELSE IF config.data.kind = "string" /\ JSONParse(config.data.text) = <<>>
    THEN [kind  |-> "card", title |-> config.title,
          body  |-> renderChart(NormalizedData(config.data)),
          calls |-> <<"JSON.parse", "renderChart">>]
    ELSE [kind  |-> "card", title |-> config.title,
          body  |-> renderChart(NormalizedData(config.data)),
          calls |-> (IF config.data.kind = "string" THEN <<"JSON.parse">> ELSE <<>>)
                       \o <<"renderChart">>]

ChartRenderer_element ==
    IF DataFalsy(config.data)
    THEN [kind |-> "null", calls |-> <<>>]
    ELSE IF config.type = "error"
    THEN [kind |-> "error", title |-> config.title, message |-> Message, calls |-> <<>>]
    ELSE IF config.data.kind = "string" /\ JSONParse(config.data.text) = <<>>
    THEN [kind |-> "text", title |-> config.title, text |-> config.data.text,
          calls |-> <<"JSON.parse">>]
    ELSE [kind  |-> "card", title |-> config.title,
          body  |-> renderChart(NormalizedData(config.data)),
          calls |-> (IF config.data.kind = "string" THEN <<"JSON.parse">> ELSE <<>>)
                       \o <<"renderChart">>]

ChartRenderer_render ==
    /\ phase = "props"
    /\ rendered' = ChartRenderer_element
    /\ chartData' = IF ChartRenderer_element.kind = "card"
                    THEN NormalizedData(config.data) ELSE <<>>
    /\ phase' = "rendered"
    /\ UNCHANGED <<dashVars, selVars, streamVars, config, percentData, tick>>

\* The chart library asks an axis of the rendered composed chart for the label
\* of a tick.
Composed_tickFormatter(axis, value) ==
    /\ phase = "rendered"
    /\ rendered.kind = "card"
    /\ rendered.body.kind = "chart"
    /\ rendered.body.element = "ComposedChart"
    /\ axis = "right" => rendered.body.rightAxis
    /\ tick' = << [axis  |-> axis, value |-> value,
                   label |-> IF axis = "left" THEN LeftTickFormatter(value)
                             ELSE RightTickFormatter(value)] >>
    /\ UNCHANGED <<dashVars, selVars, streamVars, config, chartData, percentData, rendered, phase>>

\* ---- inputs
RenderConfig(type, xKey, yKey, data) ==
    [type |-> type, title |-> "Sales", message |-> <<>>,
     xKey |-> xKey, yKey |-> yKey, data |-> data]

\* The registry's types, 'error', a type the registry does not have, and no type.
DispatchTypes == ChartType \cup {"error", "heatmap", Null}

NamedRow == [name |-> Str("N"), value |-> Num(5)]
CatRow(c, vx, vy) == [cat |-> Str(c), x |-> Num(vx), y |-> Num(vy)]

DispatchData ==
    { DataAbsent, DataString(""), DataString("oops"), DataString("[]"),
      DataString("[{\"name\":\"N\",\"value\":5}]"), DataString("{\"name\":\"N\",\"value\":5}"),
      DataArray(<<>>), DataArray(<<NamedRow>>), DataObject(NamedRow),
      DataArray(<<CatRow("A", 1, 3), CatRow("B", 2, 0)>>) }

DispatchKeys ==
    { [xKey |-> <<>>, yKey |-> YKeyAbsent],
      [xKey |-> <<"cat">>, yKey |-> YKeyArray(<<"x", "y">>)] }

DispatchConfigs ==
    { RenderConfig(type, k.xKey, k.yKey, data) :
          type \in DispatchTypes, k \in DispatchKeys, data \in DispatchData }
        \cup { [RenderConfig("error", <<>>, YKeyAbsent, data) EXCEPT !.message = <<"Query failed">>] :
                  data \in DispatchData }

\* Rows with the default keys: positive, negative and non-numeric values.
WaterfallRows == { [name |-> Str("a"), value |-> v] :
                       v \in {Num(5), Num(-3), Num(2), Str("abc")} }

WaterfallConfigs ==
    { RenderConfig("waterfall", <<>>, YKeyAbsent, DataArray(rows)) :
          rows \in SeqsUpTo(WaterfallRows, MaxSeriesRows) }
        \cup { RenderConfig("waterfall", <<"cat">>, YKeyArray(<<"y", "x">>), DataArray(rows)) :
                  rows \in SeqsUpTo({CatRow("A", 1, 3), CatRow("B", 2, -4)}, MaxRows) }

\* Rows that can be told apart by their name (the row's index), with few values.
IndexedRows(k) ==
    { [i \in 1..k |-> [name |-> Num(i), value |-> f[i]]] : f \in [1..k -> {Num(1), Num(2)}] }

\* Rows that repeat names, with a non-numeric value, and a row without the keys.
FunnelRows ==
    { [name |-> Str("a"), value |-> Num(3)], [name |-> Str("a"), value |-> Num(9)],
      [name |-> Str("b"), value |-> Num(1)], [name |-> Str("b"), value |-> Str("abc")],
      [label |-> Str("z")] }

FunnelConfigs ==
    { RenderConfig("funnel", <<>>, YKeyAbsent, DataArray(rows)) :
          rows \in (UNION { IndexedRows(k) : k \in 0..MaxFunnelRows })
                      \cup SeqsUpTo(FunnelRows, MaxSeriesRows) }

MonthRow(m, revenue, rate) ==
    [month |-> Str(m), revenue |-> Num(revenue), growth_rate |-> Num(rate)]

ComposedData == { DataArray(<<>>),
                  DataArray(<<MonthRow("Jan", 120000, 5), MonthRow("Feb", 95000, -3)>>) }

ComposedYKeys ==
    { YKeyAbsent, YKeyScalar("revenue"), YKeyScalar(""), YKeyArray(<<>>),
      YKeyArray(<<"revenue">>), YKeyArray(<<"revenue", "growth_rate">>),
      YKeyArray(<<"revenue", "growth_rate", "margin">>) }

ComposedConfigs ==
    { RenderConfig("composed", <<"month">>, yKey, data) :
          yKey \in ComposedYKeys, data \in ComposedData }

\* The shapes of yKey handed to the single-metric families: absent, scalar,
\* empty scalar, and arrays that are empty, start with a name or start with ''.
SingleMetricYKeys ==
    { YKeyAbsent, YKeyScalar(""), YKeyScalar("y"), YKeyArray(<<>>), YKeyArray(<<"y">>),
      YKeyArray(<<"y", "x">>), YKeyArray(<<"">>), YKeyArray(<<"", "y">>) }

SingleMetricTypes == {"bar", "line", "pie", "area", "scatter"}

SingleMetricConfigs ==
    { RenderConfig(type, <<"cat">>, yKey, DataArray(<<CatRow("A", 1, 3)>>)) :
          type \in SingleMetricTypes, yKey \in SingleMetricYKeys }

RendererConfigs == DispatchConfigs \cup WaterfallConfigs \cup FunnelConfigs
                      \cup ComposedConfigs \cup SingleMetricConfigs

InitRenderer ==
    /\ InitDashboard
    /\ IdleStream
    /\ IdleSelector
    /\ config \in RendererConfigs
    /\ chartData = <<>>
    /\ percentData = <<>>
    /\ rendered = [kind |-> "none"]
    /\ tick = <<>>
    /\ phase = "props"

\* Values an axis tick takes: the scenario's values, the thresholds and their
\* neighbours, values whose quotient falls between two decimals, negative
\* values, and halves.
TickIntegers ==
    { 0, 5, 50, 99, 100, 101, 150, 999, 1000, 1001, 1050, 1150, 95000, 120000,
      999949, 999950, 999999, 1000000, 1250000, 2500000,
      -3, -50, -999, -1000, -1500, -2500000 }

TickValues == { [num |-> n, den |-> 1] : n \in TickIntegers }
                 \cup { [num |-> n, den |-> 2] : n \in {1, 5, 199, 201, 1999, -1} }

NextRenderer ==
    \/ ChartRenderer_render
    \/ \E axis \in {"left", "right"}, value \in TickValues : Composed_tickFormatter(axis, value)

SpecRenderer == InitRenderer /\ [][NextRenderer]_vars

\* ------------------------------------------------------------------
\* Claims about the renderer (checked under SpecRenderer)
\* ------------------------------------------------------------------
Rendered == phase = "rendered"

\* A chart of the given type was returned.
RenderedChart(type) ==
    /\ Rendered
    /\ config.type = type
    /\ rendered.kind = "card"
    /\ rendered.body.kind = "chart"

\* The value the claims read from an input row: Number(row[key]) || 0.
RowValue(row) == NumberOrZero(Get(row, getYKey))

\* C11: waterfall row i starts where row i - 1 ended (the first at 0) and ends
\* at its start plus its value; one row named "Total" is appended last, with
\* start 0 and end = value = the sum of all values: n + 1 rows in all.
C11_WaterfallRunningTotal ==
    RenderedChart("waterfall") =>
        LET out == rendered.body.data
            n   == Len(chartData)
        IN  /\ Len(out) = n + 1
            /\ \A i \in 1..n :
                  /\ out[i].value = Num(RowValue(chartData[i]))
                  /\ out[i].start = IF i = 1 THEN Num(0) ELSE out[i - 1].end
                  /\ out[i].end = Num(out[i].start.n + RowValue(chartData[i]))
                  /\ out[i].name = Get(chartData[i], CategoryKey)
            /\ out[n + 1].name = Str("Total")
            /\ out[n + 1].start = Num(0)
            /\ out[n + 1].end = (IF n = 0 THEN Num(0) ELSE out[n].end)
            /\ out[n + 1].value = out[n + 1].end
            /\ DOMAIN out[n + 1] = {"name", "value", "start", "end", "fill"}

\* The values 5, -3, 2 give (0,5), (5,2), (2,4) and a Total of 4.
C11_Witness ==
    /\ RenderedChart("waterfall")
    /\ Len(chartData) = 3
    /\ chartData[1].value = Num(5) /\ chartData[2].value = Num(-3) /\ chartData[3].value = Num(2)
    /\ rendered.body.data[2].start = Num(5) /\ rendered.body.data[2].end = Num(2)
    /\ rendered.body.data[3].start = Num(2) /\ rendered.body.data[3].end = Num(4)
    /\ rendered.body.data[4].name = Str("Total") /\ rendered.body.data[4].value = Num(4)

\* The {name, value} pair a funnel input row is mapped to.
MappedPair(row) ==
    [name |-> ToStringValue(Get(row, CategoryKey)), value |-> RowValue(row)]

PairOf(item) == [name |-> item.name, value |-> item.value]

\* C12: the funnel's output has the length and the multiset of {name, value}
\* pairs of the mapped input, and its values never increase.
C12_FunnelSortedPermutation ==
    RenderedChart("funnel") =>
        LET out == rendered.body.data
            pairs == { MappedPair(chartData[i]) : i \in DOMAIN chartData }
                        \cup { PairOf(out[j]) : j \in DOMAIN out }
        IN  /\ Len(out) = Len(chartData)
            /\ \A p \in pairs :
                  Cardinality({ i \in DOMAIN chartData : MappedPair(chartData[i]) = p })
                      = Cardinality({ j \in DOMAIN out : PairOf(out[j]) = p })
            /\ \A j \in 1..(Len(out) - 1) : out[j].value >= out[j + 1].value

\* The values 3, 9, 1 (two rows share a name) come out as 9, 3, 1.
C12_Witness ==
    /\ RenderedChart("funnel")
    /\ Len(chartData) = 3
    /\ chartData[1] = [name |-> Str("a"), value |-> Num(3)]
    /\ chartData[2] = [name |-> Str("a"), value |-> Num(9)]
    /\ chartData[3] = [name |-> Str("b"), value |-> Num(1)]
    /\ rendered.body.data[1].value = 9
    /\ rendered.body.data[2].value = 3
    /\ rendered.body.data[3].value = 1

\* The element a funnel input row at 1-based position i is mapped to, with the
\* palette colour of its 0-based index modulo the palette's 8 colours.
MappedItem(i) ==
    [name  |-> ToStringValue(Get(chartData[i], CategoryKey)),
     value |-> RowValue(chartData[i]),
     fill  |-> COLORS[((i - 1) % 8) + 1]]

AllValuesEqual ==
    \A i, j \in DOMAIN chartData : RowValue(chartData[i]) = RowValue(chartData[j])

\* C13: every output element of the funnel carries the colour of its index in
\* the input, not of its position after the sort; when all values are equal the
\* output is the mapped input in input order.
C13_FunnelColourBeforeSort ==
    RenderedChart("funnel") =>
        LET out == rendered.body.data
            items == { MappedItem(i) : i \in DOMAIN chartData }
                        \cup { out[j] : j \in DOMAIN out }
        IN  /\ \A e \in items :
                  Cardinality({ i \in DOMAIN chartData : MappedItem(i) = e })
                      = Cardinality({ j \in DOMAIN out : out[j] = e })
            /\ AllValuesEqual => out = [i \in DOMAIN chartData |-> MappedItem(i)]

\* Nine rows, the last with the largest value: it comes out first, with the
\* colour of index 8, which is the palette's first.
C13_Witness ==
    /\ RenderedChart("funnel")
    /\ Len(chartData) = 9
    /\ \A i \in 1..8 : chartData[i].value = Num(1)
    /\ chartData[9].value = Num(2)
    /\ rendered.body.data[1].name = ToStringValue(Num(9))
    /\ rendered.body.data[1].fill = COLORS[1]
    /\ rendered.body.data[2].fill = COLORS[1]

\* The metric keys as the claims count them: the array's elements, or the one
\* key of a scalar or missing yKey.
MetricKeyCount == IF config.yKey.kind = "array" THEN Len(config.yKey.keys) ELSE 1

\* C14: in a composed chart the first metric key is drawn against the primary
\* (left) axis and every other one against the secondary (right) axis; with
\* exactly one metric key there is no secondary axis and no secondary series
\* but a hint, with two or more there is a secondary axis and no hint.
C14_ComposedAxes ==
    RenderedChart("composed") =>
        LET body == rendered.body
        IN  /\ MetricKeyCount >= 1 =>
                  /\ body.leftAxis
                  /\ body.bars = << [dataKey |-> <<yKeys[1]>>, yAxisId |-> "left"] >>
                  /\ Len(body.lines) = MetricKeyCount - 1
                  /\ \A i \in DOMAIN body.lines :
                        /\ body.lines[i].dataKey = <<config.yKey.keys[i + 1]>>
                        /\ body.lines[i].yAxisId = "right"
            /\ MetricKeyCount = 1 =>
                  /\ ~body.rightAxis
                  /\ body.lines = <<>>
                  /\ body.hint
            /\ MetricKeyCount >= 2 =>
                  /\ body.rightAxis
                  /\ ~body.hint

\* Three metric keys: one bar on the left axis, two lines on the right, no hint.
C14_Witness ==
    /\ RenderedChart("composed")
    /\ config.yKey = YKeyArray(<<"revenue", "growth_rate", "margin">>)
    /\ rendered.body.bars[1].dataKey = <<"revenue">>
    /\ Len(rendered.body.lines) = 2
    /\ rendered.body.lines[2].dataKey = <<"margin">>
    /\ rendered.body.rightAxis
    /\ ~rendered.body.hint

\* The composed scenario: months against revenue and growth_rate.
ScenarioRendered ==
    /\ RenderedChart("composed")
    /\ config.xKey = <<"month">>
    /\ config.yKey = YKeyArray(<<"revenue", "growth_rate">>)
    /\ chartData = <<MonthRow("Jan", 120000, 5), MonthRow("Feb", 95000, -3)>>

\* The label the axis gave the integer value n, if that is the last tick formatted.
TickIs(axis, n) ==
    /\ tick # <<>>
    /\ tick[1].axis = axis
    /\ tick[1].value = [num |-> n, den |-> 1]

\* C15 as stated: in the scenario revenue is labelled "120.0K" and "95.0K" and
\* growth_rate "5.0%" and "-3.0%".
C15_ScenarioNegativePercent ==
    ScenarioRendered =>
        /\ TickIs("left", 120000) => tick[1].label = <<"1", "2", "0", ".", "0", "K">>
        /\ TickIs("left", 95000)  => tick[1].label = <<"9", "5", ".", "0", "K">>
        /\ TickIs("right", 5)     => tick[1].label = <<"5", ".", "0", "%">>
        /\ TickIs("right", -3)    => tick[1].label = <<"-", "3", ".", "0", "%">>

\* C15 amended: revenue is labelled "120.0K" and "95.0K", growth_rate "5.0%"
\* and "-3.0": the negative value gets one decimal and no percent suffix.
C15_ScenarioLabels ==
    ScenarioRendered =>
        /\ TickIs("left", 120000) => tick[1].label = <<"1", "2", "0", ".", "0", "K">>
        /\ TickIs("left", 95000)  => tick[1].label = <<"9", "5", ".", "0", "K">>
        /\ TickIs("right", 5)     => tick[1].label = <<"5", ".", "0", "%">>
        /\ TickIs("right", -3)    => tick[1].label = <<"-", "3", ".", "0">>

\* The right axis of the scenario has formatted -3.
C15_Witness ==
    /\ ScenarioRendered
    /\ TickIs("right", -3)
    /\ tick[1].label = <<"-", "3", ".", "0">>

\* |value| >= n
MagnitudeAtLeast(v, n) == Abs(v.num) >= n * v.den

\* C16: the left axis picks its branch by the magnitude of the value, negative
\* values included: M from 1,000,000, K from 1,000, the value with no decimals
\* below; the right axis labels every value within [0,100] as a percentage.
C16_TickByMagnitude ==
    (Rendered /\ tick # <<>>) =>
        LET v == tick[1].value
        IN  /\ tick[1].axis = "left" =>
                  tick[1].label =
                      (IF MagnitudeAtLeast(v, 1000000)
                       THEN ToFixed(TickDividedBy(v, 1000000), 1) \o <<"M">>
                       ELSE IF MagnitudeAtLeast(v, 1000)
                       THEN ToFixed(TickDividedBy(v, 1000), 1) \o <<"K">>
                       ELSE ToFixed(TickNumber(v), 0))
            /\ (tick[1].axis = "right" /\ TickAtLeast(v, 0) /\ TickAtMost(v, 100)) =>
                  tick[1].label = ToFixed(TickNumber(v), 1) \o <<"%">>

\* What ran before the return.
Ran(call) == \E i \in DOMAIN rendered.calls : rendered.calls[i] = call

\* C17: a descriptor of type error gets the message-only error element,
\* whatever its data holds (a sequence, a string, empty or absent), and nothing
\* is parsed or transformed.
C17_ErrorWhateverData ==
    (Rendered /\ config.type = "error") =>
        /\ rendered.kind = "error"
        /\ rendered.message = Message
        /\ rendered.calls = <<>>

\* The data is an empty sequence after normalization.
EmptyAfterNormalization ==
    \/ config.data.kind = "array" /\ config.data.rows = <<>>
    \/ /\ config.data.kind = "string"
       /\ JSONParse(config.data.text) # <<>>
       /\ JSONParse(config.data.text)[1].kind = "array"
       /\ JSONParse(config.data.text)[1].rows = <<>>

\* C18: empty data and a type other than error give the "no data" placeholder
\* for every chart family, not a chart.
C18_NoDataEveryFamily ==
    (Rendered /\ config.type # "error" /\ EmptyAfterNormalization) =>
        /\ rendered.kind = "card"
        /\ rendered.body.kind = "noData"

\* The data reaches the dispatch: it is there and, if a string, it parses.
DataNormalizes ==
    /\ ~DataFalsy(config.data)
    /\ config.data.kind = "string" => JSONParse(config.data.text) # <<>>

\* C19: a chart type that is neither in the registry nor error is rendered as
\* the table of the data (its "no data" line when there are no rows), never as
\* a chart.
C19_UnknownTypeAsTable ==
    (Rendered /\ config.type \notin ChartType \cup {"error"}) =>
        /\ rendered.kind \in {"null", "text", "card"}
        /\ DataNormalizes => rendered.kind = "card"
        /\ rendered.kind = "card" =>
              /\ rendered.body.kind # "chart"
              /\ chartData # <<>> =>
                    /\ rendered.body.kind = "table"
                    /\ rendered.body.rows = chartData
                    /\ rendered.body.columns = DOMAIN chartData[1]
              /\ chartData = <<>> => rendered.body.kind = "noData"

\* A type the registry does not have, over two rows.
C19_Witness ==
    /\ Rendered
    /\ config.type = "heatmap"
    /\ Len(chartData) = 2
    /\ rendered.kind = "card"
    /\ rendered.body.kind = "table"
    /\ rendered.body.columns = {"cat", "x", "y"}

\* The data is a string that does not parse.
MalformedString ==
    config.data.kind = "string" /\ JSONParse(config.data.text) = <<>>

SingleRecord ==
    IF config.data.kind = "object" THEN <<config.data.row>>
    ELSE IF /\ config.data.kind = "string"
            /\ JSONParse(config.data.text) # <<>>
            /\ JSONParse(config.data.text)[1].kind = "object"
    THEN <<JSONParse(config.data.text)[1].row>>
    ELSE <<>>

\* C21: after normalization the data is a sequence of rows, and when the data,
\* given directly or obtained by parsing a string, is a single row rather than
\* a sequence, the result is the one-element sequence holding that row.
C21_SingleRecordWrapped ==
    (Rendered /\ rendered.kind = "card") =>
        /\ DOMAIN chartData = 1..Len(chartData)
        /\ SingleRecord # <<>> => chartData = SingleRecord

\* The metric keys a rendered chart reads.
MetricDataKeys ==
    IF config.type = "composed"
    THEN rendered.body.bars[1].dataKey
            \o [i \in DOMAIN rendered.body.lines |-> rendered.body.lines[i].dataKey[1]]
    ELSE rendered.body.series

\* C22: in every chart family a missing xKey makes the category key "name" and
\* a missing yKey makes the metric key "value"; no family uses another default
\* or leaves the key undefined.
C22_LiteralDefaultKeys ==
    (Rendered /\ rendered.kind = "card" /\ rendered.body.kind = "chart") =>
        /\ config.xKey = <<>> => rendered.body.category = <<"name">>
        /\ config.yKey.kind = "absent" => MetricDataKeys = <<"value">>

\* A single-metric chart was returned; its one series reads getYKey().
RenderedSingleMetric ==
    /\ Rendered
    /\ config.type \in SingleMetricTypes
    /\ rendered.kind = "card"
    /\ rendered.body.kind = "chart"

\* C23 as stated: a sequence yKey resolves to its first element, or to "value"
\* when the sequence is empty; a scalar yKey resolves to itself, or to "value"
\* when it is absent or empty.
C23_PrimaryKeyFirstElement ==
    RenderedSingleMetric =>
        rendered.body.series =
            << IF config.yKey.kind = "array"
               THEN (IF config.yKey.keys = <<>> THEN "value" ELSE config.yKey.keys[1])
               ELSE IF config.yKey.kind = "scalar" /\ config.yKey.keys[1] # ""
               THEN config.yKey.keys[1]
               ELSE "value" >>

\* C23 amended: a sequence yKey resolves to its first element, or to "value"
\* when the sequence is empty or its first element is the empty string; a
\* scalar yKey resolves to itself, or to "value" when it is absent or empty.
C23_PrimaryKeyNonEmptyFirst ==
    RenderedSingleMetric =>
        rendered.body.series =
            << IF config.yKey.kind = "array"
               THEN (IF config.yKey.keys = <<>> \/ config.yKey.keys[1] = ""
                     THEN "value" ELSE config.yKey.keys[1])
               ELSE IF config.yKey.kind = "scalar" /\ config.yKey.keys[1] # ""
               THEN config.yKey.keys[1]
               ELSE "value" >>

\* A sequence yKey that starts with the empty string was resolved to "value",
\* not to its second element.
C23_Witness ==
    /\ RenderedSingleMetric
    /\ config.yKey = YKeyArray(<<"", "y">>)
    /\ rendered.body.series = <<"value">>

\* ===================================================================
\* streamAnalysis: the EventSource, its two handlers and the cleanup
\* ===================================================================

\* ------------------------------------------------------------------ bounds
MaxCallbacks == 3
MaxLogged == 2

\* event.data of a message: text that JSON.parse rejects, or an object whose
\* type is 'step', 'result', 'error' or something else.
StreamEvents ==
    { [kind |-> "malformed"],
      [kind |-> "json", type |-> "step",   data |-> "Generating SQL"],
      [kind |-> "json", type |-> "step",   data |-> "Running query"],
      [kind |-> "json", type |-> "result", data |-> "response"],
      [kind |-> "json", type |-> "error",  data |-> "Query failed"],
      [kind |-> "json", type |-> "ping",   data |-> ""] }

\* The callback an event's type selects, <<>> when it selects none.
CallbackOf(event) ==
    CASE event.type = "step"   -> <<"onStep">>
      [] event.type = "result" -> <<"onResult">>
      [] event.type = "error"  -> <<"onError">>
      [] OTHER -> <<>>

Terminal == {"onResult", "onError"}

\* streamAnalysis up to its return: new EventSource(url), the two handlers set.
streamAnalysis ==
    /\ phase = "call"
    /\ readyState' = "CONNECTING"
    /\ phase' = "streaming"
    /\ UNCHANGED <<dashVars, selVars, rendVars, delivered, logged, cleanedUp>>

\* The browser opened the connection (also after a reconnect).
EventSource_open ==
    /\ phase = "streaming"
    /\ readyState = "CONNECTING"
    /\ readyState' = "OPEN"
    /\ UNCHANGED <<dashVars, selVars, rendVars, delivered, logged, cleanedUp, phase>>

\* eventSource.onmessage.  JSON.parse and the callback run inside one try:
\* when either throws, the catch logs and the rest of the try, close()
\* included, is skipped.  `throws` says whether the callback threw.
EventSource_onmessage(event, throws) ==
    /\ phase = "streaming"
    /\ readyState = "OPEN"
    /\ IF event.kind = "malformed"
       THEN /\ logged < MaxLogged
            /\ logged' = logged + 1
            /\ UNCHANGED <<delivered, readyState>>
       ELSE IF CallbackOf(event) = <<>>
       THEN UNCHANGED <<delivered, logged, readyState>>
       ELSE /\ Len(delivered) < MaxCallbacks
            /\ throws => logged < MaxLogged
            /\ delivered' = Append(delivered, [callback |-> CallbackOf(event)[1],
                                               data     |-> event.data])
            /\ logged' = IF throws THEN logged + 1 ELSE logged
            /\ readyState' = IF CallbackOf(event)[1] \in Terminal /\ ~throws
                             THEN "CLOSED" ELSE readyState
    /\ UNCHANGED <<dashVars, selVars, rendVars, cleanedUp, phase>>

\* eventSource.onerror.  The browser fires it when the connection fails or
\* ends: it has already set readyState to CLOSED (fatal) or to CONNECTING (it
\* will reconnect); close() is skipped when the callback throws.
EventSource_onerror(fatal, throws) ==
    /\ phase = "streaming"
    /\ readyState \in {"CONNECTING", "OPEN"}
    /\ Len(delivered) < MaxCallbacks
    /\ delivered' = Append(delivered, [callback |-> "onError", data |-> "Connection lost"])
    /\ readyState' = IF throws /\ ~fatal THEN "CONNECTING" ELSE "CLOSED"
    /\ UNCHANGED <<dashVars, selVars, rendVars, logged, cleanedUp, phase>>

\* The function streamAnalysis returned: () => eventSource.close()
cleanup ==
    /\ phase = "streaming"
    /\ ~cleanedUp
    /\ readyState' = "CLOSED"
    /\ cleanedUp' = TRUE
    /\ UNCHANGED <<dashVars, selVars, rendVars, delivered, logged, phase>>

InitStream ==
    /\ InitDashboard
    /\ IdleSelector
    /\ IdleRenderer
    /\ IdleStream
    /\ phase = "call"

NextStream ==
    \/ streamAnalysis
    \/ EventSource_open
    \/ \E event \in StreamEvents, throws \in BOOLEAN : EventSource_onmessage(event, throws)
    \/ \E fatal \in BOOLEAN, throws \in BOOLEAN : EventSource_onerror(fatal, throws)
    \/ cleanup

SpecStream == InitStream /\ [][NextStream]_vars

\* ------------------------------------------------------------------
\* Claims about the streaming channel (checked under SpecStream)
\* ------------------------------------------------------------------
\* The terminal callbacks delivered so far.
TerminalCalls == { i \in DOMAIN delivered : delivered[i].callback \in Terminal }

\* C24: every stream delivers exactly one terminal callback (onResult or
\* onError), the channel is closed right after it, and no callback is
\* delivered after the terminal one or after the cleanup function was called.
C24_OneTerminalThenClosed ==
    /\ [](/\ Cardinality(TerminalCalls) <= 1
          /\ (readyState = "CLOSED" /\ ~cleanedUp) => Cardinality(TerminalCalls) = 1
          /\ TerminalCalls # {} => readyState = "CLOSED")
    /\ [][(TerminalCalls # {} \/ cleanedUp) => delivered' = delivered]_vars

\* ===================================================================
\* Claims about the Dashboard's step log, frame, loading flag (under Spec)
\* ===================================================================

C26_PickFrame ==
    [][lastAction'.name = "pick" =>
           /\ UNCHANGED <<result, steps, error, isLoading>>
           /\ DataTable' = DataTable
           /\ getEffectiveConfig' = << [Config EXCEPT !.type = selectedChartType'] >>]_vars

\* A pick of a type other than the config's, over a result that has rows: the
\* table shows them and the stored type is still the config's own.
C26_Witness ==
    /\ lastAction.name = "pick"
    /\ HasConfig
    /\ lastAction.arg # Config.type
    /\ selectedChartType = lastAction.arg
    /\ DataTable.kind = "table"
    /\ DataTable.rows = Config.data[1]

\* C27: at most one query is in flight: a request is started only while the
\* loading flag is false, the trimmed question is not empty and no request is
\* pending, so no second handleSubmit starts before the first one's request
\* has settled.
C27_AtMostOneInFlight ==
    /\ [](pending <= 1 /\ (pending = 1 <=> isLoading))
    /\ [][pending' > pending =>
              /\ ~isLoading
              /\ Trim(question) # <<>>
              /\ pending = 0]_vars

\* A query is in flight with a question still in the input, and the submit
\* handler does not start another one.
C27_Witness ==
    /\ pending = 1
    /\ isLoading
    /\ Trim(question) # <<>>
    /\ lastAction.name = "submit"
    /\ ~ENABLED QueryInput_handleSubmit

\* A step in which the request of the query in flight failed.
FailureStep == isLoading /\ ~isLoading' /\ error' # Null

\* C28: result and error are never both set; a successful query leaves error
\* null, and a failed query leaves result null and the selection unset, with
\* one error entry appended after the steps already logged.
C28_ResultXorError ==
    /\ [](/\ ~(result # <<>> /\ error # Null)
          /\ lastAction.name = "result" => (result # <<>> /\ error = Null)
          /\ lastAction.name = "error" =>
                 (result = <<>> /\ error # Null /\ selectedChartType = Null
                     /\ selectionState = "Unset"))
    /\ [][FailureStep => steps' = Append(steps, ErrorStep(error'))]_vars

\* A query failed after the result of an earlier query had been shown with a
\* user override: the result is gone and the log ends with the error entry.
C28_Witness ==
    /\ lastAction.name = "error"
    /\ beforeSubmit.selectionState = "UserOverride"
    /\ result = <<>>
    /\ error = "Network Error"
    /\ steps = <<SendingStep, ErrorStep("Network Error")>>

\* C29 (checked under SpecSettling, where every request settles): a submitted
\* query eventually leaves the loading flag false, whether its request
\* resolved or rejected; the step that settles it clears the flag, and with
\* the flag clear a non-empty question can be submitted again.
C29_LoadingEnds ==
    /\ isLoading ~> ~isLoading
    /\ [][pending' < pending => ~isLoading']_vars
    /\ []((~isLoading /\ Trim(question) # <<>>) => ENABLED QueryInput_handleSubmit)

\* A query failed, the flag is clear and the question in the input can be
\* submitted again.
C29_Witness ==
    /\ lastAction.name = "error"
    /\ ~isLoading
    /\ Trim(question) # <<>>
    /\ ENABLED QueryInput_handleSubmit

\* ===================================================================
\* Claim about the ranking as a whole (checked under SpecSelector)
\* ===================================================================

\* C30: whatever recommendedCharts holds (nothing, duplicates, values outside
\* the registry) the ranked output is a permutation of the 15-entry registry:
\* every registry option appears exactly once and nothing else appears.
C30_RankedIsPermutation ==
    Ranked =>
        /\ Len(CHART_OPTIONS) = 15
        /\ Len(sortedOptions) = Len(CHART_OPTIONS)
        /\ \A i \in DOMAIN CHART_OPTIONS :
               Cardinality({ j \in DOMAIN sortedOptions :
                                 sortedOptions[j] = CHART_OPTIONS[i] }) = 1
        /\ \A j \in DOMAIN sortedOptions :
               \E i \in DOMAIN CHART_OPTIONS : sortedOptions[j] = CHART_OPTIONS[i]

\* A list that names one registry type twice was ranked: the type is in front
\* once, and the output still has the registry's 15 entries.
C30_Witness ==
    /\ phase = "ranked"
    /\ recommendedTypes = <<"funnel", "funnel">>
    /\ sortedOptions[1].value = "funnel"
    /\ sortedOptions[2].value = "bar"
    /\ Len(sortedOptions) = 15

=============================================================================
